---- MODULE Spec2Model ----
(***************************************************************************)
(* The two page-verification scripts, verify_droid.py and                  *)
(* verify_example.py: a driving routine (the __main__ block) that starts   *)
(* Playwright, launches a browser, opens a page, calls the probe and       *)
(* closes the browser, and the probe (verify_droid / verify_example) that  *)
(* registers two observers, navigates, waits for the marker text and takes *)
(* a screenshot.                                                           *)
(*                                                                         *)
(* Every Playwright call either returns or raises an Exception.  A line of *)
(* the log is one print call: its prefix and the text formatted after it.  *)
(* Exceptions that are not subclasses of Exception (KeyboardInterrupt) are *)
(* outside the model.                                                      *)
(***************************************************************************)
EXTENDS Integers, Sequences, FiniteSets, TLC

VARIABLES script, pc, calls, log, emitted, handlers, exc, raised, browser,
          probe, exitStatus

vars == <<script, pc, calls, log, emitted, handlers, exc, raised, browser,
          probe, exitStatus>>

\* ------------------------------------------------------------- bounds
\* The number of console messages and page errors the page emits in a run.
MaxEvents == 2

\* ------------------------------------------------- program constants
Scripts == {"verify_droid", "verify_example"}

DroidUrl == "http://localhost:3000"
ExampleUrl == "http://localhost:5173"
DroidMarker == "text=Droid"
ExampleMarker == "text=Pi Web UI Example"
DroidShot == "verification.png"
ExampleShot == "example.png"
WaitTimeout == 5000

Url(s) == IF s = "verify_droid" THEN DroidUrl ELSE ExampleUrl
Marker(s) == IF s = "verify_droid" THEN DroidMarker ELSE ExampleMarker
ShotPath(s) == IF s = "verify_droid" THEN DroidShot ELSE ExampleShot

\* ---------------------------------------------------------- exceptions
NoExc == [origin |-> "none", message |-> ""]
Exc(op, msg) == [origin |-> op, message |-> msg]

\* raise e: e is the pending exception (raised records every exception of
\* the run).
Raise(e) ==
    /\ exc' = e
    /\ raised' = raised \cup {e}

\* The message of the TimeoutError wait_for_selector raises for timeout=ms.
TimeoutMessage(ms) == "Timeout " \o ToString(ms) \o "ms exceeded."

\* What a failing page.goto can report.
GotoFailures == {"net::ERR_CONNECTION_REFUSED", "net::ERR_NAME_NOT_RESOLVED"}
\* What a failing page.wait_for_selector can report.
WaitFailures == {TimeoutMessage(WaitTimeout), "Target page has been closed"}

\* ------------------------------------------------------------ the log
\* Variant: the observers print with the prefix of the except clause.
ObserverLineAsError(kind, text) == [prefix |-> "Error", text |-> text]

\* print(f"Console: {msg.text}") and print(f"Page Error: {err}")
ObserverLine(kind, text) ==
    [prefix |-> IF kind = "console" THEN "Console" ELSE "Page Error",
     text |-> text]

\* Variant: print("Error:") without the exception's message.
ErrorLineNoMessage(e) == [prefix |-> "Error", text |-> ""]

\* print(f"Error: {e}")
ErrorLine(e) == [prefix |-> "Error", text |-> e.message]

EventKinds == {"console", "pageerror"}
EventTexts == {"m1", "m2"}

Call(op, arg) == [op |-> op, arg |-> arg]

\* -------------------------------------------------------------- Init
Init ==
    /\ script \in Scripts
    /\ pc = "start"
    /\ calls = <<>>
    /\ log = <<>>
    /\ emitted = <<>>
    /\ handlers = {}
    /\ exc = NoExc
    /\ raised = {}
    /\ browser = "none"
    /\ probe = "notcalled"
    /\ exitStatus = -1

\* ------------------------------------------------------------ helpers
\* The number of calls of op made so far.
CallsOf(op) == Len(SelectSeq(calls, LAMBDA c : c.op = op))
IsErrorLine(l) == l.prefix = "Error"
\* The lines of the log that start with "Error:".
ErrorLines == SelectSeq(log, IsErrorLine)
\* The calls that have raised so far.
RaisedOps == {e.origin : e \in raised}
\* The probe has been called and has returned or raised.
ProbeOver == probe \in {"returned", "raised"}
\* ------------------------------------------------- the driving routine
\* with sync_playwright() as p:  (entering the context)
EnterPlaywright ==
    /\ pc = "start"
    /\ \E ok \in BOOLEAN :
         IF ok
         THEN /\ pc' = "launch"
              /\ UNCHANGED <<exc, raised>>
         ELSE /\ pc' = "exit"
              /\ Raise(Exc("sync_playwright", "driver failed to start"))
    /\ UNCHANGED <<script, calls, log, emitted, handlers, browser, probe,
                   exitStatus>>

\* browser = p.chromium.launch()
Launch ==
    /\ pc = "launch"
    /\ calls' = Append(calls, Call("launch", "chromium"))
    /\ \E ok \in BOOLEAN :
         IF ok
         THEN /\ pc' = "new_page"
              /\ browser' = "open"
              /\ UNCHANGED <<exc, raised>>
         ELSE /\ pc' = "with_exit"
              /\ Raise(Exc("launch", "browser failed to launch"))
              /\ UNCHANGED browser
    /\ UNCHANGED <<script, log, emitted, handlers, probe, exitStatus>>

\* page = browser.new_page(), before the try block; then verify(page) is
\* called inside it.
NewPage ==
    /\ pc = "new_page"
    /\ calls' = Append(calls, Call("new_page", ""))
    /\ \E ok \in BOOLEAN :
         IF ok
         THEN /\ pc' = "on_console"
              /\ probe' = "running"
              /\ UNCHANGED <<exc, raised>>
         ELSE /\ pc' = "with_exit"
              /\ Raise(Exc("new_page", "page could not be created"))
              /\ UNCHANGED probe
    /\ UNCHANGED <<script, log, emitted, handlers, browser, exitStatus>>

\* ----------------------------------------------------------- the probe
\* Variant: page.on is called but the handler is never installed.
RegisterNoInstall(at, event, next) ==
    /\ pc = at
    /\ calls' = Append(calls, Call("on", event))
    /\ pc' = next
    /\ UNCHANGED <<script, log, emitted, handlers, exc, raised, browser,
                   probe, exitStatus>>

\* page.on(event, handler), outside the probe's try block: an exception
\* leaves the probe at once; the driver's finally then closes the browser.
Register(at, event, next) ==
    /\ pc = at
    /\ calls' = Append(calls, Call("on", event))
    /\ \E ok \in BOOLEAN :
         IF ok
         THEN /\ pc' = next
              /\ handlers' = handlers \cup {event}
              /\ UNCHANGED <<exc, raised, probe>>
         ELSE /\ pc' = "close"
              /\ probe' = "raised"
              /\ Raise(Exc("on_" \o event, "observer not registered"))
              /\ UNCHANGED handlers
    /\ UNCHANGED <<script, log, emitted, browser, exitStatus>>

RegisterConsole == Register("on_console", "console", "on_pageerror")

RegisterPageError == Register("on_pageerror", "pageerror", "goto")

\* The page emits a console message or an uncaught error while the script
\* is blocked in a page call; a registered handler prints it.
PageEvent ==
    /\ pc \in {"in_goto", "in_wait", "in_screenshot"}
    /\ Len(emitted) < MaxEvents
    /\ \E kind \in EventKinds, text \in EventTexts :
         /\ emitted' = Append(emitted, [kind |-> kind, text |-> text])
         /\ log' = IF kind \in handlers
                   THEN Append(log, ObserverLine(kind, text))
                   ELSE log
    /\ UNCHANGED <<script, pc, calls, handlers, exc, raised, browser, probe,
                   exitStatus>>

\* try: page.goto(url)
GotoCall ==
    /\ pc = "goto"
    /\ calls' = Append(calls, Call("goto", Url(script)))
    /\ pc' = "in_goto"
    /\ UNCHANGED <<script, log, emitted, handlers, exc, raised, browser,
                   probe, exitStatus>>

\* Variant: page.goto in a try block of its own, so that a failed
\* navigation is logged and the marker wait still runs.
GotoDoneSeparateTry ==
    /\ pc = "in_goto"
    /\ pc' = "wait"
    /\ \/ UNCHANGED <<exc, raised, log>>
       \/ \E msg \in GotoFailures :
            /\ raised' = raised \cup {Exc("goto", msg)}
            /\ log' = Append(log, ErrorLine(Exc("goto", msg)))
            /\ UNCHANGED exc
    /\ UNCHANGED <<script, calls, emitted, handlers, browser, probe,
                   exitStatus>>

\* page.goto returns, or raises into the except clause.
GotoDone ==
    /\ pc = "in_goto"
    /\ \/ /\ pc' = "wait"
          /\ UNCHANGED <<exc, raised>>
       \/ \E msg \in GotoFailures :
            /\ pc' = "except"
            /\ Raise(Exc("goto", msg))
    /\ UNCHANGED <<script, calls, log, emitted, handlers, browser, probe,
                   exitStatus>>

\* page.wait_for_selector(marker, timeout=5000)
WaitCall ==
    /\ pc = "wait"
    /\ calls' = Append(calls, Call("wait_for_selector", Marker(script)))
    /\ pc' = "in_wait"
    /\ UNCHANGED <<script, log, emitted, handlers, exc, raised, browser,
                   probe, exitStatus>>

\* wait_for_selector returns (the try block ends, the finally clause runs),
\* or raises into the except clause.
WaitDone ==
    /\ pc = "in_wait"
    /\ \/ /\ pc' = "screenshot"
          /\ UNCHANGED <<exc, raised>>
       \/ \E msg \in WaitFailures :
            /\ pc' = "except"
            /\ Raise(Exc("wait_for_selector", msg))
    /\ UNCHANGED <<script, calls, log, emitted, handlers, browser, probe,
                   exitStatus>>

\* Variant: the screenshot in the try block instead of a finally clause.
ExceptHandlerNoFinally ==
    /\ pc = "except"
    /\ log' = Append(log, ErrorLine(exc))
    /\ exc' = NoExc
    /\ pc' = "close"
    /\ probe' = "returned"
    /\ UNCHANGED <<script, calls, emitted, handlers, raised, browser,
                   exitStatus>>

\* Variant: the except clause prints and re-raises.
ExceptHandlerReraise ==
    /\ pc = "except"
    /\ log' = Append(log, ErrorLine(exc))
    /\ pc' = "screenshot"
    /\ UNCHANGED <<script, calls, emitted, handlers, exc, raised, browser,
                   probe, exitStatus>>

\* Variant: the except clause prints and tries the navigation again.
ExceptHandlerRetry ==
    /\ pc = "except"
    /\ log' = Append(log, ErrorLine(exc))
    /\ exc' = NoExc
    /\ pc' = "goto"
    /\ UNCHANGED <<script, calls, emitted, handlers, raised, browser, probe,
                   exitStatus>>

\* except Exception as e: print(f"Error: {e}"); then the finally clause.
ExceptHandler ==
    /\ pc = "except"
    /\ log' = Append(log, ErrorLine(exc))
    /\ exc' = NoExc
    /\ pc' = "screenshot"
    /\ UNCHANGED <<script, calls, emitted, handlers, raised, browser, probe,
                   exitStatus>>

\* finally: page.screenshot(path=...)
ScreenshotCall ==
    /\ pc = "screenshot"
    /\ calls' = Append(calls, Call("screenshot", ShotPath(script)))
    /\ pc' = "in_screenshot"
    /\ UNCHANGED <<script, log, emitted, handlers, exc, raised, browser,
                   probe, exitStatus>>

\* Variant: after the screenshot the probe goes on to the marker wait it
\* has not made yet.
ScreenshotDoneThenWait ==
    /\ pc = "in_screenshot"
    /\ pc' = IF CallsOf("wait_for_selector") = 0 /\ exc = NoExc
             THEN "wait" ELSE "close"
    /\ probe' = IF pc' = "close" THEN "returned" ELSE probe
    /\ UNCHANGED <<script, calls, log, emitted, handlers, exc, raised,
                   browser, exitStatus>>

\* page.screenshot returns and the finally clause ends (the probe returns,
\* or an exception still pending goes on to the caller), or it raises out
\* of the finally clause and so out of the probe.
ScreenshotDone ==
    /\ pc = "in_screenshot"
    /\ pc' = "close"
    /\ \/ /\ probe' = IF exc = NoExc THEN "returned" ELSE "raised"
          /\ UNCHANGED <<exc, raised>>
       \/ /\ probe' = "raised"
          /\ Raise(Exc("screenshot", "screenshot failed"))
    /\ UNCHANGED <<script, calls, log, emitted, handlers, browser,
                   exitStatus>>

\* ------------------------------------------- the driving routine, end
\* finally: browser.close()  (an exception of the probe stays pending; one
\* raised by close replaces it)
BrowserClose ==
    /\ pc = "close"
    /\ calls' = Append(calls, Call("close", ""))
    /\ pc' = "with_exit"
    /\ \/ /\ browser' = "closed"
          /\ UNCHANGED <<exc, raised>>
       \/ /\ Raise(Exc("close", "close failed"))
          /\ UNCHANGED browser
    /\ UNCHANGED <<script, log, emitted, handlers, probe, exitStatus>>

\* Leaving the with block: the context manager stops Playwright and lets a
\* pending exception through.
ExitPlaywright ==
    /\ pc = "with_exit"
    /\ pc' = "exit"
    /\ UNCHANGED <<script, calls, log, emitted, handlers, exc, raised,
                   browser, probe, exitStatus>>

\* Variant: the script ends with sys.exit(0) whatever happened.
ProcessExitAlwaysZero ==
    /\ pc = "exit"
    /\ pc' = "done"
    /\ exitStatus' = 0
    /\ UNCHANGED <<script, calls, log, emitted, handlers, exc, raised,
                   browser, probe>>

\* The interpreter ends: status 0, or 1 after an uncaught exception.
ProcessExit ==
    /\ pc = "exit"
    /\ pc' = "done"
    /\ exitStatus' = IF exc = NoExc THEN 0 ELSE 1
    /\ UNCHANGED <<script, calls, log, emitted, handlers, exc, raised,
                   browser, probe>>

Next ==
    \/ EnterPlaywright
    \/ Launch
    \/ NewPage
    \/ RegisterConsole
    \/ RegisterPageError
    \/ PageEvent
    \/ GotoCall
    \/ GotoDone
    \/ WaitCall
    \/ WaitDone
    \/ ExceptHandler
    \/ ScreenshotCall
    \/ ScreenshotDone
    \/ BrowserClose
    \/ ExitPlaywright
    \/ ProcessExit

Spec == Init /\ [][Next]_vars

TypeOK ==
    /\ script \in Scripts
    /\ exitStatus \in {-1, 0, 1}
    /\ probe \in {"notcalled", "running", "returned", "raised"}
    /\ browser \in {"none", "open", "closed"}
    /\ handlers \subseteq EventKinds

\* ------------------------------------------------------------- claims
ProbeUncaught == {"on_console", "on_pageerror", "screenshot"}
TryOps == {"goto", "wait_for_selector"}
TimeoutExc == Exc("wait_for_selector", TimeoutMessage(WaitTimeout))

\* C1: in every run of the probe that reaches navigation, whatever the
\* outcome of navigation and of the marker wait, page.screenshot is called
\* exactly once by the time the probe is over, and never more than once.
C1_ScreenshotExactlyOnce ==
    /\ CallsOf("screenshot") <= 1
    /\ (ProbeOver /\ CallsOf("goto") >= 1) => CallsOf("screenshot") = 1

C1_Witness ==
    /\ pc = "done"
    /\ "goto" \in RaisedOps
    /\ CallsOf("screenshot") = 1

\* C2 as stated: the probe never raises to its caller, whichever of its
\* steps fails.
C2_ProbeNeverRaises == probe # "raised"

\* C2 amended: the probe raises to its caller exactly when an observer
\* registration or the screenshot capture raises; a failure of navigation
\* or of the marker wait is never pending when the probe returns.
C2_ProbeRaisesOnlyOutsideTry ==
    /\ ProbeOver => (probe = "raised" <=> RaisedOps \cap ProbeUncaught # {})
    /\ (pc = "close" /\ probe = "returned") => exc = NoExc

C2_Witness ==
    /\ pc = "close"
    /\ probe = "returned"
    /\ "wait_for_selector" \in RaisedOps

\* C3: no run ends with a launched browser on which close was never
\* called.
C3_LaunchedBrowserClosed ==
    (pc = "done" /\ CallsOf("launch") = 1 /\ "launch" \notin RaisedOps)
        => CallsOf("close") >= 1

\* C4 as stated: the process always ends with exit status 0.
C4_ExitStatusZero == pc = "done" => exitStatus = 0

\* C4 amended: the process ends with status 0 exactly when no call other
\* than navigation and the marker wait raised; those two failures are
\* never reflected in the exit code.
C4_ExitStatusReflectsUncaught ==
    pc = "done" => (exitStatus = 0 <=> RaisedOps \subseteq TryOps)

C4_Witness ==
    /\ pc = "done"
    /\ exitStatus = 0
    /\ "goto" \in RaisedOps

\* C5: when navigation succeeds and the marker wait times out, the log
\* holds exactly one "Error:" line, which carries the timeout's message
\* with its duration, and the screenshot is taken after that line and
\* exactly once.
C5_TimeoutLogsOneError ==
    TimeoutExc \in raised =>
        /\ "goto" \notin RaisedOps
        /\ pc # "except" => ErrorLines = <<[prefix |-> "Error",
                                           text |-> "Timeout 5000ms exceeded."]>>
        /\ pc = "except" => (ErrorLines = <<>> /\ CallsOf("screenshot") = 0)
        /\ ProbeOver => CallsOf("screenshot") = 1

C5_Witness ==
    /\ pc = "done"
    /\ TimeoutExc \in raised
    /\ Len(ErrorLines) = 1
    /\ CallsOf("screenshot") = 1

\* C6: when navigation fails, the log holds exactly one "Error:" line, the
\* marker wait is not made (so it adds no second line), and the screenshot
\* is still taken, once.
C6_NavFailureLogsOneError ==
    "goto" \in RaisedOps =>
        /\ CallsOf("wait_for_selector") = 0
        /\ Len(ErrorLines) = (IF pc = "except" THEN 0 ELSE 1)
        /\ \A i \in 1..Len(ErrorLines) : ErrorLines[i].text \in GotoFailures
        /\ ProbeOver => CallsOf("screenshot") = 1

C6_Witness ==
    /\ pc = "done"
    /\ "goto" \in RaisedOps
    /\ Len(ErrorLines) = 1
    /\ probe = "returned"

\* C7: as long as neither navigation nor the marker wait has failed, the
\* log holds no "Error:" line, whatever the observers have printed.
C7_NoErrorLineOnSuccess ==
    RaisedOps \cap TryOps = {} => ErrorLines = <<>>

C7_Witness ==
    /\ pc = "done"
    /\ probe = "returned"
    /\ RaisedOps = {}
    /\ CallsOf("wait_for_selector") = 1
    /\ \E i \in 1..Len(log) : log[i].prefix = "Console"
    /\ \E i \in 1..Len(log) : log[i].prefix = "Page Error"

\* C8: the screenshot is the probe's last call: every call made after it
\* is the driver's browser.close, and the browser is open and not yet
\* closed while the screenshot is taken.
C8_ScreenshotLastAndBeforeClose ==
    /\ \A i, j \in 1..Len(calls) :
         (i < j /\ calls[i].op = "screenshot") => calls[j].op = "close"
    /\ pc = "in_screenshot" => (browser = "open" /\ CallsOf("close") = 0)

C8_Witness ==
    /\ Len(calls) >= 2
    /\ calls[Len(calls) - 1].op = "screenshot"
    /\ calls[Len(calls)].op = "close"
    /\ CallsOf("wait_for_selector") = 1

\* C9: navigation starts only after both observers are installed, and
\* every console message and page error the page has emitted is in the
\* log, in order, under its own prefix.
C9_ObserversBeforeNavigation ==
    /\ CallsOf("goto") >= 1 =>
         /\ handlers = {"console", "pageerror"}
         /\ \A i \in 1..Len(calls) : calls[i].op = "goto" =>
              /\ \E j \in 1..(i - 1) : calls[j] = [op |-> "on", arg |-> "console"]
              /\ \E j \in 1..(i - 1) : calls[j] = [op |-> "on", arg |-> "pageerror"]
    /\ SelectSeq(log, LAMBDA l : l.prefix # "Error")
         = [i \in 1..Len(emitted) |->
              [prefix |-> IF emitted[i].kind = "console"
                          THEN "Console" ELSE "Page Error",
               text |-> emitted[i].text]]

C9_Witness ==
    /\ pc = "in_goto"
    /\ Len(emitted) >= 1
    /\ Len(log) = Len(emitted)

\* C10: navigation is attempted at most once and the marker wait at most
\* once; after a failed navigation there is no second navigation and no
\* marker wait, and after a failed wait no second wait.
C10_NothingRetried ==
    /\ CallsOf("goto") <= 1
    /\ CallsOf("wait_for_selector") <= 1
    /\ "goto" \in RaisedOps =>
         (CallsOf("goto") = 1 /\ CallsOf("wait_for_selector") = 0)
    /\ \A i, j \in 1..Len(calls) :
         (i < j /\ calls[i].op \in TryOps) => calls[j].op # "goto"

C10_Witness ==
    /\ pc = "done"
    /\ RaisedOps \cap TryOps # {}
    /\ CallsOf("goto") = 1

====
